---------------------------- MODULE Spec2Model ----------------------------
(***************************************************************************)
(* Verification model of se3_cnn:                                          *)
(*   - SE3KernelCombination / SE3Convolution  (se3_cnn/convolution.py)     *)
(*   - GatedActivation  (se3_cnn/non_linearities/gated_activation.py)      *)
(*                                                                         *)
(* Tensors are integer valued.  A kernel or basis tensor                   *)
(* [feature_out, feature_in, x, y, z] is a sequence (feature_out) of       *)
(* sequences (feature_in) of sequences over the size^3 voxels; a feature   *)
(* tensor [batch, channel, x, y, z] is a sequence (channel) of sequences   *)
(* over the batch*x*y*z positions.  Python indices are 0-based, sequence   *)
(* indices 1-based: loop variables keep the code's 0-based values and a    *)
(* "+ 1" appears where a sequence is indexed.  A tensor built by a        *)
(* function constructor is followed by "\o <<>>", which leaves its value   *)
(* unchanged and makes TLC store it as a finite sequence.                  *)
(***************************************************************************)
EXTENDS Integers, Sequences, FiniteSets, TLC

VARIABLES
    \* ---- SE3Convolution / SE3KernelCombination object ----
    k_pc,               \* "new" before construction, "ready" after
    Rs_out_arg,         \* the constructor's Rs_out argument
    Rs_in_arg,          \* the constructor's Rs_in argument
    basis_seed,         \* the outcome of the basis generator
    size,               \* self.size
    multiplicites_out,  \* self.multiplicites_out
    multiplicites_in,   \* self.multiplicites_in
    dims_out,           \* self.dims_out
    dims_in,            \* self.dims_in
    kernels,            \* self.kernels[i][j] : sequence of basis tensors
    nweights,           \* self.nweights
    \* ---- last SE3KernelCombination.forward call ----
    fwd_status,         \* "none" | "ok" | "AssertionError" | "IndexError"
    weight,             \* the argument: [dim, vals]
    kernel,             \* the returned kernel, NoTensor when nothing returned
    fwd_index,          \* final value of weight_index
    fwd_reads,          \* the (i, j, ii, jj, k, t) of every weight[t] read, in order
    fwd_blocks,         \* the (i, j, ii, jj, si, sj) of every slice pair computed, in order
    \* ---- the SE3KernelCombination.backward call of the current pass ----
    bwd_status,         \* "none" | "ok"
    grad_kernel,        \* the argument
    grad_weight,        \* the returned gradient vector
    bwd_index,          \* final value of weight_index
    bwd_writes,         \* the (i, j, ii, jj, k, t) of every grad_weight[t] write, in order
    \* ---- last SE3Convolution.forward call ----
    conv_status,        \* "none" | "ok" | "RuntimeError"
    x_channels,         \* input.size(1)
    y_channels,         \* output.size(1), -1 when nothing returned
    \* ---- GatedActivation object ----
    g_pc,               \* "new" | "ready" | "AssertionError"
    repr_in,            \* self.repr_in
    g_size,             \* the size argument
    act_arg,            \* the activation argument as passed
    scalar_act,         \* self.scalar_act : "None" or the activation's name
    gates,              \* self.gates : the gate convolution and activation, or NoGates
    \* ---- last GatedActivation.forward call ----
    ga_status,          \* "none" | "ok" | "RuntimeError"
    ga_x,               \* the input feature tensor
    ga_g,               \* g = self.gates(x), <<>> when gating is off
    ga_z,               \* the returned tensor
    ga_begin_g,         \* final value of begin_g
    ga_uses             \* the (capsule's first channel, gate channel) pairs, in order

kvars == <<k_pc, Rs_out_arg, Rs_in_arg, basis_seed, size, multiplicites_out, multiplicites_in, dims_out, dims_in,
           kernels, nweights, fwd_status, weight, kernel, fwd_index, fwd_reads,
           fwd_blocks, bwd_status, grad_kernel, grad_weight, bwd_index, bwd_writes,
           conv_status, x_channels, y_channels>>

gvars == <<g_pc, repr_in, g_size, act_arg, scalar_act, gates,
           ga_status, ga_x, ga_g, ga_z, ga_begin_g, ga_uses>>

vars == <<kvars, gvars>>

(***************************************************************************)
(* Bounds of the model.                                                    *)
(***************************************************************************)
\* largest total multiplicity of a representation list
MaxCopies == 2
\* largest number of basis tensors the generator returns for one pair
MaxBasis == 2
\* number of batch*x*y*z positions of a feature tensor
NumPos == 2
\* largest number of surplus channels of a GatedActivation input
MaxExtra == 1

\* representation orders n used for SE3Convolution (dimension 2n+1)
Orders == 0 .. 1
\* kernel sizes
Sizes == {1, 2}
\* outcomes of the basis generator
BasisSeeds == 0 .. 1
\* values an uninitialised float of torch.FloatTensor(...) may hold
JunkVals == {0, 7}

NoTensor == <<>>

(***************************************************************************)
(* Arithmetic helpers (torch primitives)                                   *)
(***************************************************************************)
\* s[lo] + ... + s[hi], by halves
RECURSIVE SumRange(_, _, _)
SumRange(s, lo, hi) ==
    IF lo > hi THEN 0
    ELSE IF lo = hi THEN s[lo]
    ELSE SumRange(s, lo, (lo + hi) \div 2) + SumRange(s, (lo + hi) \div 2 + 1, hi)

\* sum(s)
SumSeq(s) == SumRange(s, 1, Len(s))

\* tensor.view(-1) of a contiguous [a, b, v] tensor: row-major order
Flatten(T) ==
    IF Len(T) = 0 \/ Len(T[1]) = 0 THEN <<>>
    ELSE LET nb == Len(T[1])
             nv == Len(T[1][1])
         IN [n \in 1 .. Len(T) * nb * nv |->
                T[((n - 1) \div (nb * nv)) + 1][(((n - 1) \div nv) % nb) + 1][((n - 1) % nv) + 1]] \o <<>>

\* torch.matmul of two 1-d tensors
Dot(u, v) == SumSeq([n \in 1 .. Len(u) |-> u[n] * v[n]] \o <<>>)

\* tensor * scalar
Scale(T, c) ==
    [a \in 1 .. Len(T) |->
        [b \in 1 .. Len(T[a]) |->
            [v \in 1 .. Len(T[a][b]) |-> T[a][b][v] * c] \o <<>>] \o <<>>] \o <<>>

\* T[si, sj] with si, sj the slices [start, stop)
Block(T, si, sj) ==
    [a \in 1 .. (si.stop - si.start) |->
        [b \in 1 .. (sj.stop - sj.start) |-> T[si.start + a][sj.start + b]] \o <<>>] \o <<>>

\* T[si, sj] = B
AssignBlock(T, si, sj, B) ==
    [a \in 1 .. Len(T) |->
        IF si.start < a /\ a <= si.stop
        THEN [b \in 1 .. Len(T[a]) |->
                 IF sj.start < b /\ b <= sj.stop
                 THEN B[a - si.start][b - sj.start]
                 ELSE T[a][b]] \o <<>>
        ELSE T[a]] \o <<>>

slice(lo, hi) == [start |-> lo, stop |-> hi]

\* SO3.dim of the irreducible representation of order n
Dim(n) == 2 * n + 1


(***************************************************************************)
(* The basis generator (se3_cnn.basis_kernels, an external collaborator):  *)
(* for one (R_out, R_in) pair it returns an ordered sequence of tensors of *)
(* shape [dim(R_out), dim(R_in), size, size, size]; the sequence may be    *)
(* empty.  bseed selects one outcome of the generator.                     *)
(***************************************************************************)
BasisCount(R_out, R_in, bseed) == (bseed + R_out + 2 * R_in) % (MaxBasis + 1)

BasisVal(k, a, b, v) == (((k + 2) * a + b + v + k) % 4) - 1

\* generate_basis: the returned tensors keep the generator's shape and count;
\* the normalisation rescales each tensor by a positive factor
generate_basis(R_out, R_in, sz, bseed) ==
    [k1 \in 1 .. BasisCount(R_out, R_in, bseed) |->
        [a \in 1 .. Dim(R_out) |->
            [b \in 1 .. Dim(R_in) |->
                [v \in 1 .. sz * sz * sz |-> BasisVal(k1 - 1, a, b, v)] \o <<>>] \o <<>>] \o <<>>] \o <<>>

(***************************************************************************)
(* SE3KernelCombination.__init__                                           *)
(***************************************************************************)
\* [(m, R) for m, R in Rs if m >= 1]
KeepsEntry(e) == e.m >= 1

FilterRs(Rs) == SelectSeq(Rs, KeepsEntry)

Multiplicities(Rs) == [n \in 1 .. Len(Rs) |-> Rs[n].m]

Dims(Rs) == [n \in 1 .. Len(Rs) |-> Dim(Rs[n].R)]

Kernels(Rs_out, Rs_in, sz, bseed) ==
    [i1 \in 1 .. Len(Rs_out) |->
        [j1 \in 1 .. Len(Rs_in) |->
            generate_basis(Rs_out[i1].R, Rs_in[j1].R, sz, bseed)]]

\* one term of the nweights loop
WeightTerm(mo, mi, nb) == mo * mi * nb

\* self.nweights = 0; for i ...: for j ...: self.nweights += ...
RECURSIVE CountWeights(_, _, _, _, _)
CountWeights(mo, mi, ks, i, j) ==
    IF i >= Len(mo) THEN 0
    ELSE IF j >= Len(mi) THEN CountWeights(mo, mi, ks, i + 1, 0)
    ELSE WeightTerm(mo[i + 1], mi[j + 1], Len(ks[i + 1][j + 1]))
         + CountWeights(mo, mi, ks, i, j + 1)

(***************************************************************************)
(* SE3KernelCombination.forward                                            *)
(***************************************************************************)
\* sum([mult[i] * dims[i] for i in range(len(mult))])
Channels(mult, dims) == SumSeq([n \in 1 .. Len(mult) |-> mult[n] * dims[n]])

\* torch.FloatTensor(n_out, n_in, size, size, size): uninitialised memory
Uninitialized(n_out, n_in, sz, junk) ==
    [a \in 1 .. n_out |->
        [b \in 1 .. n_in |-> [v \in 1 .. sz * sz * sz |-> junk] \o <<>>] \o <<>>] \o <<>>

\* a faulty si that steps by one channel instead of one copy; C4 must reject it
OutSliceUnscaled(begin_i, i, ii) ==
    slice(begin_i + ii, begin_i + ii + dims_out[i + 1])

\* si / sj of the loop body
OutSlice(begin_i, i, ii) ==
    slice(begin_i + ii * dims_out[i + 1], begin_i + (ii + 1) * dims_out[i + 1])

InSlice(begin_j, j, jj) ==
    slice(begin_j + jj * dims_in[j + 1], begin_j + (jj + 1) * dims_in[j + 1])

\* kernel[si, sj] = self.kernels[i][j][k] * weight[weight_index]
FwdWrite(K, si, sj, B, w) == AssignBlock(K, si, sj, Scale(B, w))

Visit(i, j, ii, jj, k, t) == [i |-> i, j |-> j, ii |-> ii, jj |-> jj, k |-> k, t |-> t]

\* for k in range(self.kernels[i][j].size(0)): ...; weight_index += 1
\* (weight[weight_index] raises IndexError past the end of weight, which ends
\* the call: every enclosing loop then stops at its next read)
RECURSIVE FwdLoopK(_, _, _, _, _, _, _, _, _)
FwdLoopK(st, w, i, j, ii, jj, si, sj, k) ==
    IF k >= Len(kernels[i + 1][j + 1]) THEN st
    ELSE IF st.weight_index >= Len(w) THEN [st EXCEPT !.raised = "IndexError"]
    ELSE FwdLoopK(
            [kernel |-> FwdWrite(st.kernel, si, sj, kernels[i + 1][j + 1][k + 1],
                                 w[st.weight_index + 1]),
             weight_index |-> st.weight_index + 1,
             reads |-> Append(st.reads, Visit(i, j, ii, jj, k, st.weight_index)),
             blocks |-> st.blocks,
             raised |-> st.raised],
            w, i, j, ii, jj, si, sj, k + 1)

\* for jj in range(self.multiplicites_in[j]): sj = ...
\* st.blocks records the slice pair (si, sj) of the iteration
Addressed(i, j, ii, jj, si, sj) == [i |-> i, j |-> j, ii |-> ii, jj |-> jj, si |-> si, sj |-> sj]

RECURSIVE FwdLoopJJ(_, _, _, _, _, _, _, _)
FwdLoopJJ(st, w, i, j, ii, si, begin_j, jj) ==
    IF jj >= multiplicites_in[j + 1] THEN st
    ELSE FwdLoopJJ(FwdLoopK([st EXCEPT !.blocks = Append(@, Addressed(i, j, ii, jj, si,
                                                                     InSlice(begin_j, j, jj)))],
                            w, i, j, ii, jj, si, InSlice(begin_j, j, jj), 0),
                   w, i, j, ii, si, begin_j, jj + 1)

\* for ii in range(self.multiplicites_out[i])
RECURSIVE FwdLoopII(_, _, _, _, _, _, _)
FwdLoopII(st, w, i, j, begin_i, begin_j, ii) ==
    IF ii >= multiplicites_out[i + 1] THEN st
    ELSE FwdLoopII(FwdLoopJJ(st, w, i, j, ii, OutSlice(begin_i, i, ii), begin_j, 0),
                   w, i, j, begin_i, begin_j, ii + 1)

\* for j in range(len(self.multiplicites_in)); begin_j += ...
RECURSIVE FwdLoopJ(_, _, _, _, _, _)
FwdLoopJ(st, w, i, begin_i, begin_j, j) ==
    IF j >= Len(multiplicites_in) THEN st
    ELSE FwdLoopJ(FwdLoopII(st, w, i, j, begin_i, begin_j, 0),
                  w, i, begin_i, begin_j + multiplicites_in[j + 1] * dims_in[j + 1], j + 1)

\* for i in range(len(self.multiplicites_out)); begin_i += ...
RECURSIVE FwdLoopI(_, _, _, _)
FwdLoopI(st, w, begin_i, i) ==
    IF i >= Len(multiplicites_out) THEN st
    ELSE FwdLoopI(FwdLoopJ(st, w, i, begin_i, 0, 0),
                  w, begin_i + multiplicites_out[i + 1] * dims_out[i + 1], i + 1)

\* the body of forward after the assertions
Combine(w, junk) ==
    FwdLoopI([kernel |-> Uninitialized(Channels(multiplicites_out, dims_out),
                                       Channels(multiplicites_in, dims_in), size, junk),
              weight_index |-> 0,
              reads |-> <<>>,
              blocks |-> <<>>,
              raised |-> "None"],
             w, 0, 0)

\* a faulty argument check that tests the rank only; C3 must reject it
WeightRankOnly(w) == w.dim = 1

\* assert weight.dim() == 1; assert weight.size(0) == self.nweights
WeightAccepted(w) == w.dim = 1 /\ Len(w.vals) = nweights
(***************************************************************************)
(* SE3KernelCombination.backward                                           *)
(***************************************************************************)
\* torch.matmul(self.kernels[i][j][k].view(-1), grad_kernel[si, sj].contiguous().view(-1))
BwdEntry(B, G, si, sj) == Dot(Flatten(B), Flatten(Block(G, si, sj)))

\* a faulty store that fills grad_weight from its end; C9 must reject it
BwdWriteReversed(gw, t, val) == [gw EXCEPT ![Len(gw) - t] = val]

\* grad_weight[weight_index] = ...
BwdWrite(gw, t, val) == [gw EXCEPT ![t + 1] = val]

\* for k in range(self.kernels[i][j].size(0)): ...; weight_index += 1
\* (grad_weight[weight_index] = ... raises IndexError past the end of grad_weight)
RECURSIVE BwdLoopK(_, _, _, _, _, _, _, _, _)
BwdLoopK(st, G, i, j, ii, jj, si, sj, k) ==
    IF k >= Len(kernels[i + 1][j + 1]) THEN st
    ELSE IF st.weight_index >= Len(st.grad) THEN [st EXCEPT !.raised = "IndexError"]
    ELSE BwdLoopK(
            [grad |-> BwdWrite(st.grad, st.weight_index,
                               BwdEntry(kernels[i + 1][j + 1][k + 1], G, si, sj)),
             weight_index |-> st.weight_index + 1,
             writes |-> Append(st.writes, Visit(i, j, ii, jj, k, st.weight_index)),
             raised |-> st.raised],
            G, i, j, ii, jj, si, sj, k + 1)

\* for jj in range(self.multiplicites_in[j])
RECURSIVE BwdLoopJJ(_, _, _, _, _, _, _, _)
BwdLoopJJ(st, G, i, j, ii, si, begin_j, jj) ==
    IF jj >= multiplicites_in[j + 1] THEN st
    ELSE BwdLoopJJ(BwdLoopK(st, G, i, j, ii, jj, si, InSlice(begin_j, j, jj), 0),
                   G, i, j, ii, si, begin_j, jj + 1)

\* for ii in range(self.multiplicites_out[i])
RECURSIVE BwdLoopII(_, _, _, _, _, _, _)
BwdLoopII(st, G, i, j, begin_i, begin_j, ii) ==
    IF ii >= multiplicites_out[i + 1] THEN st
    ELSE BwdLoopII(BwdLoopJJ(st, G, i, j, ii, OutSlice(begin_i, i, ii), begin_j, 0),
                   G, i, j, begin_i, begin_j, ii + 1)

\* for j in range(len(self.multiplicites_in)); begin_j += ...
RECURSIVE BwdLoopJ(_, _, _, _, _, _)
BwdLoopJ(st, G, i, begin_i, begin_j, j) ==
    IF j >= Len(multiplicites_in) THEN st
    ELSE BwdLoopJ(BwdLoopII(st, G, i, j, begin_i, begin_j, 0),
                  G, i, begin_i, begin_j + multiplicites_in[j + 1] * dims_in[j + 1], j + 1)

\* for i in range(len(self.multiplicites_out)); begin_i += ...
RECURSIVE BwdLoopI(_, _, _, _)
BwdLoopI(st, G, begin_i, i) ==
    IF i >= Len(multiplicites_out) THEN st
    ELSE BwdLoopI(BwdLoopJ(st, G, i, begin_i, 0, 0),
                  G, begin_i + multiplicites_out[i + 1] * dims_out[i + 1], i + 1)

\* the body of backward; torch.FloatTensor(self.nweights) is uninitialised
CombineGradient(G, junk) ==
    BwdLoopI([grad |-> [t1 \in 1 .. nweights |-> junk] \o <<>>,
              weight_index |-> 0,
              writes |-> <<>>,
              raised |-> "None"],
             G, 0, 0)

(***************************************************************************)
(* Inputs                                                                  *)
(***************************************************************************)
\* the representation lists tried: one (multiplicity, representation) entry
\* per order, multiplicity 0 included
RsOf(mult) == [n \in 1 .. Cardinality(Orders) |-> [m |-> mult[n], R |-> n - 1]]

RsChoices ==
    {RsOf(mult) : mult \in {f \in [1 .. Cardinality(Orders) -> 0 .. MaxCopies] :
                               SumSeq(f) <= MaxCopies}}

WVal(seed, t) == (((seed + 1) * (t + 1) + seed) % 5) - 2

WeightOf(seed, len) == [t1 \in 1 .. len |-> WVal(seed, t1 - 1)] \o <<>>

GVal(seed, a, b, v) == ((seed * a + 2 * b + v) % 5) - 2

GradOf(seed, n_out, n_in, sz) ==
    [a \in 1 .. n_out |->
        [b \in 1 .. n_in |->
            [v \in 1 .. sz * sz * sz |-> GVal(seed, a, b, v)] \o <<>>] \o <<>>] \o <<>>

\* the value patterns tried for weights, gradients and inputs
Seeds == 1 .. 2

(***************************************************************************)
(* Actions of the convolution layer                                        *)
(***************************************************************************)
\* SE3Convolution.__init__ -> SE3KernelCombination.__init__
SE3ConvolutionInit(sz, Rs_out0, Rs_in0, bseed) ==
    /\ k_pc = "new"
    /\ LET Rs_out == FilterRs(Rs_out0)
           Rs_in == FilterRs(Rs_in0)
           ks == Kernels(Rs_out, Rs_in, sz, bseed)
       IN /\ Rs_out_arg' = Rs_out0
          /\ Rs_in_arg' = Rs_in0
          /\ basis_seed' = bseed
          /\ size' = sz
          /\ multiplicites_out' = Multiplicities(Rs_out)
          /\ multiplicites_in' = Multiplicities(Rs_in)
          /\ dims_out' = Dims(Rs_out)
          /\ dims_in' = Dims(Rs_in)
          /\ kernels' = ks
          /\ nweights' = CountWeights(Multiplicities(Rs_out), Multiplicities(Rs_in), ks, 0, 0)
    /\ k_pc' = "ready"
    /\ UNCHANGED <<fwd_status, weight, kernel, fwd_index, fwd_reads, fwd_blocks,
                   bwd_status, grad_kernel, grad_weight, bwd_index, bwd_writes,
                   conv_status, x_channels, y_channels>>
    /\ UNCHANGED gvars

\* the effect of SE3KernelCombination.forward(w) on the forward variables
ForwardCall(w, junk) ==
    /\ weight' = w
    /\ IF WeightAccepted(w)
       THEN LET st == Combine(w.vals, junk)
            IN /\ fwd_status' = IF st.raised = "None" THEN "ok" ELSE st.raised
               /\ kernel' = IF st.raised = "None" THEN st.kernel ELSE NoTensor
               /\ fwd_index' = st.weight_index
               /\ fwd_reads' = st.reads
               /\ fwd_blocks' = st.blocks
       ELSE /\ fwd_status' = "AssertionError"
            /\ kernel' = NoTensor
            /\ fwd_index' = 0
            /\ fwd_reads' = <<>>
            /\ fwd_blocks' = <<>>

\* no backward call has been made in the current pass
NoBackward ==
    /\ bwd_status' = "none"
    /\ grad_kernel' = NoTensor
    /\ grad_weight' = <<>>
    /\ bwd_index' = 0
    /\ bwd_writes' = <<>>

\* SE3KernelCombination.forward called directly: a new pass begins
Forward(w, junk) ==
    /\ k_pc = "ready"
    /\ ForwardCall(w, junk)
    /\ NoBackward
    /\ UNCHANGED <<k_pc, Rs_out_arg, Rs_in_arg, basis_seed, size, multiplicites_out, multiplicites_in, dims_out, dims_in,
                   kernels, nweights, conv_status, x_channels, y_channels>>
    /\ UNCHANGED gvars

\* SE3KernelCombination.backward: autograd calls it once per pass, with the
\* gradient of the kernel that forward returned
Backward(G, junk) ==
    /\ k_pc = "ready"
    /\ fwd_status = "ok"
    /\ bwd_status = "none"
    /\ LET st == CombineGradient(G, junk)
       IN /\ bwd_status' = IF st.raised = "None" THEN "ok" ELSE st.raised
          /\ grad_kernel' = G
          /\ grad_weight' = IF st.raised = "None" THEN st.grad ELSE <<>>
          /\ bwd_index' = st.weight_index
          /\ bwd_writes' = st.writes
    /\ UNCHANGED <<k_pc, Rs_out_arg, Rs_in_arg, basis_seed, size, multiplicites_out, multiplicites_in, dims_out, dims_in,
                   kernels, nweights,
                   fwd_status, weight, kernel, fwd_index, fwd_reads, fwd_blocks,
                   conv_status, x_channels, y_channels>>
    /\ UNCHANGED gvars

\* torch.nn.functional.conv3d(input, kernel): the channel count of the output,
\* -1 when the call raises (input channels differ from the kernel's, or the
\* kernel is empty)
Conv3dChannels(xc, K) ==
    IF Len(K) = 0 \/ Len(K[1]) = 0 \/ xc # Len(K[1]) THEN -1 ELSE Len(K)

\* SE3Convolution.forward (bias_relu = norm_relu = None); self.weight is the
\* layer's parameter of self.combination.nweights entries
SE3ConvolutionForward(xc, wseed, junk) ==
    /\ k_pc = "ready"
    /\ ForwardCall([dim |-> 1, vals |-> WeightOf(wseed, nweights)], junk)
    /\ x_channels' = xc
    /\ y_channels' = Conv3dChannels(xc, kernel')
    /\ conv_status' = IF y_channels' = -1 THEN "RuntimeError" ELSE "ok"
    /\ NoBackward
    /\ UNCHANGED <<k_pc, Rs_out_arg, Rs_in_arg, basis_seed, size, multiplicites_out, multiplicites_in, dims_out, dims_in,
                   kernels, nweights>>
    /\ UNCHANGED gvars

(***************************************************************************)
(* Specification of the convolution layer                                  *)
(***************************************************************************)
InitK ==
    /\ k_pc = "new"
    /\ Rs_out_arg = <<>>
    /\ Rs_in_arg = <<>>
    /\ basis_seed = 0
    /\ size = 0
    /\ multiplicites_out = <<>>
    /\ multiplicites_in = <<>>
    /\ dims_out = <<>>
    /\ dims_in = <<>>
    /\ kernels = <<>>
    /\ nweights = 0
    /\ fwd_status = "none"
    /\ weight = [dim |-> 1, vals |-> <<>>]
    /\ kernel = NoTensor
    /\ fwd_index = 0
    /\ fwd_reads = <<>>
    /\ fwd_blocks = <<>>
    /\ bwd_status = "none"
    /\ grad_kernel = NoTensor
    /\ grad_weight = <<>>
    /\ bwd_index = 0
    /\ bwd_writes = <<>>
    /\ conv_status = "none"
    /\ x_channels = 0
    /\ y_channels = -1

InitG ==
    /\ g_pc = "new"
    /\ repr_in = <<>>
    /\ g_size = 0
    /\ act_arg = "None"
    /\ scalar_act = "None"
    /\ gates = [present |-> FALSE, Rs_in |-> <<>>, Rs_out |-> <<>>, size |-> 0, padding |-> 0,
                act |-> "None"]
    /\ ga_status = "none"
    /\ ga_x = NoTensor
    /\ ga_g = NoTensor
    /\ ga_z = NoTensor
    /\ ga_begin_g = 0
    /\ ga_uses = <<>>

Init == InitK /\ InitG

\* the weight tensors tried: every value pattern of the right shape, a tensor
\* one entry short, one an entry long, and a two-dimensional one of nweights rows
WeightInputs ==
    {[dim |-> 1, vals |-> WeightOf(seed, nweights)] : seed \in Seeds}
    \cup {[dim |-> 1, vals |-> WeightOf(1, len)] : len \in {n \in {nweights - 1, nweights + 1} : n >= 0}}
    \cup {[dim |-> 2, vals |-> WeightOf(1, nweights)]}

NextK ==
    \/ \E sz \in Sizes, Rs_out0 \in RsChoices, Rs_in0 \in RsChoices, bseed \in BasisSeeds :
          SE3ConvolutionInit(sz, Rs_out0, Rs_in0, bseed)
    \/ \E w \in WeightInputs, junk \in JunkVals :
          Forward(w, junk)
    \/ \E seed \in Seeds, junk \in JunkVals :
          Backward(GradOf(seed, Channels(multiplicites_out, dims_out),
                          Channels(multiplicites_in, dims_in), size), junk)

NextC ==
    \/ \E sz \in Sizes, Rs_out0 \in RsChoices, Rs_in0 \in RsChoices, bseed \in BasisSeeds :
          SE3ConvolutionInit(sz, Rs_out0, Rs_in0, bseed)
    \/ \E extra \in 0 .. 1, seed \in Seeds, junk \in JunkVals :
          SE3ConvolutionForward(Channels(multiplicites_in, dims_in) + extra, seed, junk)

\* the kernel combiner called directly (forward and backward)
SpecK == Init /\ [][NextK]_vars

\* the convolution layer's forward pass
SpecC == Init /\ [][NextC]_vars
(***************************************************************************)
(* GatedActivation.__init__                                                *)
(***************************************************************************)
\* len(irreducible_repr)
NumIrreps == 8

\* the activation argument: a (scalar activation, gate activation) tuple, or
\* one activation used for both
ScalarActivationOf(activation) ==
    IF activation.tuple THEN activation.scalar ELSE activation.both

GateActivationOf(activation) ==
    IF activation.tuple THEN activation.gate ELSE activation.both

\* n_non_scalar = sum(repr_in[1:])
NonScalar(repr) == SumSeq(SubSeq(repr, 2, Len(repr)))

\* scalar_activation is not None and repr_in[0] > 0
HasScalarAct(repr, activation) == ScalarActivationOf(activation) # "None" /\ repr[1] > 0

\* gate_activation is not None and n_non_scalar > 0
HasGates(repr, activation) == GateActivationOf(activation) # "None" /\ NonScalar(repr) > 0

\* a constructor without the odd-size requirement; C6 must reject it
GateSizeUnchecked(sz) == TRUE

\* assert size % 2 == 1
GateSizeAccepted(sz) == sz % 2 = 1

\* list(zip(repr_in, irreducible_repr))
ZipIrreps(repr) ==
    [n \in 1 .. (IF Len(repr) < NumIrreps THEN Len(repr) ELSE NumIrreps) |->
        [m |-> repr[n], R |-> n - 1]] \o <<>>

\* self.gates = None
NoGates ==
    [present |-> FALSE, Rs_in |-> <<>>, Rs_out |-> <<>>, size |-> 0, padding |-> 0,
     act |-> "None"]

\* self.gates = Sequential(Convolution(Rs_in, Rs_out, size, padding), ScalarActivation)
Gates(repr, sz, activation) ==
    [present |-> TRUE,
     Rs_in |-> ZipIrreps(repr),
     Rs_out |-> <<[m |-> NonScalar(repr), R |-> 0]>>,
     size |-> sz,
     padding |-> sz \div 2,
     act |-> GateActivationOf(activation)]

GatedActivationInit(repr, sz, activation) ==
    /\ g_pc = "new"
    /\ repr_in' = repr
    /\ g_size' = sz
    /\ act_arg' = activation
    /\ scalar_act' = IF HasScalarAct(repr, activation)
                     THEN ScalarActivationOf(activation) ELSE "None"
    /\ IF HasGates(repr, activation)
       THEN IF GateSizeAccepted(sz)
            THEN /\ gates' = Gates(repr, sz, activation)
                 /\ g_pc' = "ready"
            ELSE /\ gates' = NoGates
                 /\ g_pc' = "AssertionError"
       ELSE /\ gates' = NoGates
            /\ g_pc' = "ready"
    /\ UNCHANGED <<ga_status, ga_x, ga_g, ga_z, ga_begin_g, ga_uses>>
    /\ UNCHANGED kvars

(***************************************************************************)
(* GatedActivation.forward                                                 *)
(***************************************************************************)
\* an activation function applied to one value
ApplyAct(act, val) ==
    CASE act = "relu" -> IF val > 0 THEN val ELSE 0
      [] act = "sign" -> IF val > 0 THEN 1 ELSE IF val < 0 THEN -1 ELSE 0
      [] OTHER -> val

\* ScalarActivation([(n, act)]) applied to a feature tensor
ScalarActivation(act, F) ==
    [c \in 1 .. Len(F) |-> [p \in 1 .. Len(F[c]) |-> ApplyAct(act, F[c][p])] \o <<>>] \o <<>>

\* x[:, lo:hi]: Python slicing stops at the end of the tensor
Crop(F, lo, hi) ==
    SubSeq(F, lo + 1, IF hi < Len(F) THEN hi ELSE Len(F))

\* a faulty crop that takes one channel per copy; C5 must reject it
CropFieldUnscaled(F, begin_x, mul, dim) == Crop(F, begin_x, begin_x + mul)

\* field_x = x[:, begin_x: begin_x + mul * dim]
CropField(F, begin_x, mul, dim) == Crop(F, begin_x, begin_x + mul * dim)

\* a faulty crop that always takes the first gate channels; C10 must reject it
CropGatesFromZero(G, begin_g, mul) == Crop(G, 0, mul)

\* field_g = g[:, begin_g: begin_g + mul]
CropGates(G, begin_g, mul) == Crop(G, begin_g, begin_g + mul)

\* field_x.view(nbatch, mul, dim, nx, ny, nz): [feature][repr][position]
ViewCapsules(F, mul, dim) ==
    [c \in 1 .. mul |-> [d \in 1 .. dim |-> F[(c - 1) * dim + d]] \o <<>>] \o <<>>

\* field_g.view(nbatch, mul, 1, nx, ny, nz)
ViewGates(G, mul) == [c \in 1 .. mul |-> <<G[c]>>] \o <<>>

\* field_x * field_g, the gate broadcast along the repr axis
Gate(Fx, Fg) ==
    [c \in 1 .. Len(Fx) |->
        [d \in 1 .. Len(Fx[c]) |->
            [p \in 1 .. Len(Fx[c][d]) |-> Fx[c][d][p] * Fg[c][1][p]] \o <<>>] \o <<>>] \o <<>>

\* field.view(nbatch, mul * dim, nx, ny, nz)
ViewChannels(F, mul, dim) ==
    [n \in 1 .. mul * dim |-> F[((n - 1) \div dim) + 1][((n - 1) % dim) + 1]] \o <<>>

\* a scalar branch that applies relu whatever was configured; C7 must reject it
ScalarFieldAlwaysRelu(field_x) == ScalarActivation("relu", field_x)

\* the scalar branch (n == 0)
ScalarField(field_x) ==
    IF scalar_act # "None" THEN ScalarActivation(scalar_act, field_x) ELSE field_x

\* the non-scalar branch with gates
GatedField(field_x, field_g, mul, dim) ==
    ViewChannels(Gate(ViewCapsules(field_x, mul, dim), ViewGates(field_g, mul)), mul, dim)

GateUse(n, begin_x, begin_g, mul) == [n |-> n, begin_x |-> begin_x, begin_g |-> begin_g, mul |-> mul]

\* for n, mul in enumerate(self.repr_in): ...
\* (a view of a field with too few channels raises RuntimeError)
RECURSIVE GatedLoop(_, _, _, _)
GatedLoop(st, x, g, n) ==
    IF n >= Len(repr_in) \/ st.raised # "None" THEN st
    ELSE LET mul == repr_in[n + 1]
             dim == 2 * n + 1
             field_x == CropField(x, st.begin_x, mul, dim)
             field_g == CropGates(g, st.begin_g, mul)
         IN IF mul = 0 THEN GatedLoop(st, x, g, n + 1)
            ELSE IF n = 0
            THEN GatedLoop([st EXCEPT !.begin_x = @ + mul * dim,
                                      !.zs = Append(@, ScalarField(field_x))],
                           x, g, n + 1)
            ELSE IF gates.present
            THEN IF Len(field_x) # mul * dim \/ Len(field_g) # mul
                 THEN [st EXCEPT !.raised = "RuntimeError"]
                 ELSE GatedLoop([st EXCEPT !.begin_x = @ + mul * dim,
                                           !.begin_g = @ + mul,
                                           !.uses = Append(@, GateUse(n, st.begin_x, st.begin_g, mul)),
                                           !.zs = Append(@, GatedField(field_x, field_g, mul, dim))],
                                x, g, n + 1)
            ELSE GatedLoop([st EXCEPT !.begin_x = @ + mul * dim,
                                      !.zs = Append(@, field_x)],
                           x, g, n + 1)

\* torch.cat(zs, dim=1)
RECURSIVE Cat(_)
Cat(zs) == IF zs = <<>> THEN <<>> ELSE Head(zs) \o Cat(Tail(zs))

\* the gate convolution's kernel shape: SE3KernelCombination with the gate's
\* representation lists
GateChannelsIn == Channels(Multiplicities(FilterRs(gates.Rs_in)), Dims(FilterRs(gates.Rs_in)))

GateChannelsOut == Channels(Multiplicities(FilterRs(gates.Rs_out)), Dims(FilterRs(gates.Rs_out)))

\* values of the gate convolution's output (learned, external)
GateVal(seed, c, p) == (((seed + c) * (p + 1) + c) % 5) - 2

\* g = self.gates(x): the convolution (padding size // 2 keeps the positions),
\* then the gate activation
GatesOutput(x, seed) ==
    ScalarActivation(gates.act,
                     [c \in 1 .. GateChannelsOut |->
                         [p \in 1 .. NumPos |-> GateVal(seed, c, p)] \o <<>>] \o <<>>)

GatedActivationForward(x, gseed) ==
    /\ g_pc = "ready"
    /\ ga_x' = x
    /\ IF gates.present /\ Conv3dChannels(Len(x), Uninitialized(GateChannelsOut, GateChannelsIn, 0, 0)) = -1
       THEN /\ ga_status' = "RuntimeError"
            /\ ga_g' = NoTensor
            /\ ga_z' = NoTensor
            /\ ga_begin_g' = 0
            /\ ga_uses' = <<>>
       ELSE LET g == IF gates.present THEN GatesOutput(x, gseed) ELSE NoTensor
                st == GatedLoop([begin_x |-> 0, begin_g |-> 0, zs |-> <<>>, uses |-> <<>>,
                                 raised |-> "None"], x, g, 0)
                raised == IF st.raised # "None" THEN st.raised
                          ELSE IF st.zs = <<>> THEN "RuntimeError" ELSE "None"
            IN /\ ga_status' = IF raised = "None" THEN "ok" ELSE raised
               /\ ga_g' = g
               /\ ga_z' = IF raised = "None" THEN Cat(st.zs) ELSE NoTensor
               /\ ga_begin_g' = st.begin_g
               /\ ga_uses' = st.uses
    /\ UNCHANGED <<g_pc, repr_in, g_size, act_arg, scalar_act, gates>>
    /\ UNCHANGED kvars

(***************************************************************************)
(* Inputs and specification of the gated activation                        *)
(***************************************************************************)
\* largest number of representation orders of repr_in
MaxReprLen == 3

ReprChoices ==
    UNION {{f \in [1 .. len -> 0 .. MaxCopies] : SumSeq(f) <= MaxCopies} : len \in 1 .. MaxReprLen}

Activations == {"None", "relu", "sign"}

ActivationArgs ==
    {[tuple |-> TRUE, scalar |-> a, gate |-> b] : a \in Activations, b \in Activations}
    \cup {[tuple |-> FALSE, both |-> a] : a \in Activations}

\* sum(mul * (2n+1)): the channels that repr_in declares
FeatureChannels(repr) == SumSeq([n \in 1 .. Len(repr) |-> repr[n] * (2 * (n - 1) + 1)] \o <<>>)

XVal(seed, c, p) ==
    LET r == (seed * c + 3 * p + c) % 6 IN IF r < 3 THEN r - 3 ELSE r - 2

FeatureOf(seed, nchannels) ==
    [c \in 1 .. nchannels |-> [p \in 1 .. NumPos |-> XVal(seed, c, p)] \o <<>>] \o <<>>

NextG ==
    \/ \E repr \in ReprChoices, sz \in Sizes, activation \in ActivationArgs :
          GatedActivationInit(repr \o <<>>, sz, activation)
    \/ \E seed \in Seeds, extra \in 0 .. MaxExtra, gseed \in Seeds :
          GatedActivationForward(FeatureOf(seed, FeatureChannels(repr_in) + extra), gseed)

\* the gated activation
SpecG == Init /\ [][NextG]_vars
(***************************************************************************)
(* Properties of the kernel combiner                                       *)
(***************************************************************************)
\* number of channels before block i (0-based) of a representation list
BeginOf(mult, dims, i) == SumSeq([n \in 1 .. i |-> mult[n] * dims[n]] \o <<>>)

NBasis(i, j) == Len(kernels[i + 1][j + 1])

\* number of weights of the pairs that precede (i, j) in the order i, j
Offset(i, j) ==
    SumSeq([p \in 1 .. (i * Len(multiplicites_in) + j) |->
               LET i2 == (p - 1) \div Len(multiplicites_in)
                   j2 == (p - 1) % Len(multiplicites_in)
               IN multiplicites_out[i2 + 1] * multiplicites_in[j2 + 1] * NBasis(i2, j2)] \o <<>>)

\* position of (i, j, ii, jj, k) in the nested order i, j, ii, jj, k
Position(i, j, ii, jj, k) ==
    Offset(i, j) + (ii * multiplicites_in[j + 1] + jj) * NBasis(i, j) + k

\* the output and input channel slices of block (i, j, ii, jj)
SliceOut(i, ii) ==
    slice(BeginOf(multiplicites_out, dims_out, i) + ii * dims_out[i + 1],
          BeginOf(multiplicites_out, dims_out, i) + (ii + 1) * dims_out[i + 1])

SliceIn(j, jj) ==
    slice(BeginOf(multiplicites_in, dims_in, j) + jj * dims_in[j + 1],
          BeginOf(multiplicites_in, dims_in, j) + (jj + 1) * dims_in[j + 1])

\* all block indices (i, j, ii, jj)
BlockIndices ==
    {b \in [i : 0 .. Len(multiplicites_out) - 1, j : 0 .. Len(multiplicites_in) - 1,
            ii : 0 .. MaxCopies - 1, jj : 0 .. MaxCopies - 1] :
        b.ii < multiplicites_out[b.i + 1] /\ b.jj < multiplicites_in[b.j + 1]}

\* sum over all k of basis[i][j][k] * w[Position(i, j, ii, jj, k)]
LinearBlock(w, i, j, ii, jj) ==
    [a \in 1 .. dims_out[i + 1] |->
        [b \in 1 .. dims_in[j + 1] |->
            [v \in 1 .. size * size * size |->
                SumSeq([k1 \in 1 .. NBasis(i, j) |->
                           kernels[i + 1][j + 1][k1][a][b][v]
                           * w[Position(i, j, ii, jj, k1 - 1) + 1]] \o <<>>)] \o <<>>] \o <<>>] \o <<>>

\* C1: after a successful forward, every sub-block (i, j, ii, jj) of the kernel
\* is the sum over all basis indices k of basis[i][j][k] * weight[t], t the
\* position of (i, j, ii, jj, k) in the nested order (all zero for an empty basis)
C1_KernelIsSumOverBasis ==
    fwd_status = "ok" =>
        \A b \in BlockIndices :
            Block(kernel, SliceOut(b.i, b.ii), SliceIn(b.j, b.jj))
                = LinearBlock(weight.vals, b.i, b.j, b.ii, b.jj)

\* C2: backward is the adjoint of forward: dot(combine_gradient(g), w)
\* equals dot(g, combine(w))
C2_Adjoint ==
    (fwd_status = "ok" /\ bwd_status = "ok") =>
        Dot(grad_weight, weight.vals) = Dot(Flatten(grad_kernel), Flatten(kernel))

\* sum over the pairs of the constructor's lists with multiplicity >= 1 of
\* multiplicity_out * multiplicity_in * basis_count
ExpectedWeights ==
    SumSeq([p \in 1 .. Len(Rs_out_arg) * Len(Rs_in_arg) |->
               LET eo == Rs_out_arg[((p - 1) \div Len(Rs_in_arg)) + 1]
                   ei == Rs_in_arg[((p - 1) % Len(Rs_in_arg)) + 1]
               IN IF eo.m >= 1 /\ ei.m >= 1
                  THEN eo.m * ei.m * BasisCount(eo.R, ei.R, basis_seed)
                  ELSE 0] \o <<>>)

\* C3: nweights is the sum over the pairs of multiplicity_out * multiplicity_in
\* * basis_count, and forward with a weight that is not one-dimensional of
\* exactly nweights entries fails with an assertion before any kernel is produced
C3_WeightCount ==
    /\ k_pc = "ready" => nweights = ExpectedWeights
    /\ fwd_status # "none" =>
          IF weight.dim = 1 /\ Len(weight.vals) = nweights
          THEN fwd_status = "ok"
          ELSE /\ fwd_status = "AssertionError"
               /\ kernel = NoTensor
               /\ fwd_reads = <<>>
               /\ fwd_blocks = <<>>

C3_Witness ==
    /\ fwd_status = "AssertionError"
    /\ weight.dim = 1
    /\ Len(weight.vals) = nweights + 1
    /\ Len(multiplicites_out) = 2
    /\ nweights >= 4

\* sum(m * dim(R)) over a constructor argument
DeclaredChannels(Rs) == SumSeq([n \in 1 .. Len(Rs) |-> Rs[n].m * Dim(Rs[n].R)] \o <<>>)

\* the (output channel, input channel) cells of a block
Cells(b) ==
    {<<a, c>> : a \in (b.si.start + 1) .. b.si.stop, c \in (b.sj.start + 1) .. b.sj.stop}

\* C4: the kernel has sum(m_out * dim_out) output and sum(m_in * dim_in) input
\* channels (multiplicity 0 contributing none); the sub-blocks addressed by the
\* slices are in bounds, pairwise disjoint and cover the kernel; the layer's
\* output has n_out channels
C4_KernelShape ==
    fwd_status = "ok" =>
        LET n_out == DeclaredChannels(Rs_out_arg)
            n_in == DeclaredChannels(Rs_in_arg)
        IN /\ Len(kernel) = n_out
           /\ \A a \in 1 .. n_out : Len(kernel[a]) = n_in
           /\ \A n \in 1 .. Len(fwd_blocks) :
                 /\ 0 <= fwd_blocks[n].si.start /\ fwd_blocks[n].si.start < fwd_blocks[n].si.stop
                 /\ fwd_blocks[n].si.stop <= n_out
                 /\ 0 <= fwd_blocks[n].sj.start /\ fwd_blocks[n].sj.start < fwd_blocks[n].sj.stop
                 /\ fwd_blocks[n].sj.stop <= n_in
           /\ \A n1, n2 \in 1 .. Len(fwd_blocks) :
                 n1 # n2 => Cells(fwd_blocks[n1]) \cap Cells(fwd_blocks[n2]) = {}
           /\ UNION {Cells(fwd_blocks[n]) : n \in 1 .. Len(fwd_blocks)}
                 = (1 .. n_out) \X (1 .. n_in)
           /\ conv_status = "ok" => y_channels = n_out

C4_Witness ==
    /\ conv_status = "ok"
    /\ \E n \in 1 .. Len(Rs_out_arg) : Rs_out_arg[n].m = 0
    /\ Len(multiplicites_in) = 2
    /\ Len(multiplicites_out) = 1
    /\ multiplicites_out[1] = 2
    /\ y_channels = 6
    /\ Len(fwd_blocks) = 4

\* lexicographic order on (i, j, ii, jj, k)
Before(u, v) ==
    \/ u.i < v.i
    \/ u.i = v.i /\ u.j < v.j
    \/ u.i = v.i /\ u.j = v.j /\ u.ii < v.ii
    \/ u.i = v.i /\ u.j = v.j /\ u.ii = v.ii /\ u.jj < v.jj
    \/ u.i = v.i /\ u.j = v.j /\ u.ii = v.ii /\ u.jj = v.jj /\ u.k < v.k

Tuple5(u) == [i |-> u.i, j |-> u.j, ii |-> u.ii, jj |-> u.jj, k |-> u.k]

\* C9: backward mirrors the weight ordering of forward: entry t of the gradient
\* is the inner product of basis[i][j][k] with the (i, j, ii, jj) sub-block of
\* g for the tuple whose weight forward reads at index t; both traversals visit
\* 0 .. nweights-1 once each in the order i, j, ii, jj, k and end at nweights
C9_BackwardMirrorsForward ==
    bwd_status = "ok" =>
        /\ bwd_writes = fwd_reads
        /\ bwd_index = nweights /\ fwd_index = nweights
        /\ Len(bwd_writes) = nweights /\ Len(grad_weight) = nweights
        /\ \A n \in 1 .. Len(bwd_writes) :
              /\ bwd_writes[n].t = n - 1
              /\ n > 1 => Before(bwd_writes[n - 1], bwd_writes[n])
              /\ bwd_writes[n].k < NBasis(bwd_writes[n].i, bwd_writes[n].j)
              /\ bwd_writes[n].ii < multiplicites_out[bwd_writes[n].i + 1]
              /\ bwd_writes[n].jj < multiplicites_in[bwd_writes[n].j + 1]
              /\ grad_weight[n] =
                    Dot(Flatten(kernels[bwd_writes[n].i + 1][bwd_writes[n].j + 1][bwd_writes[n].k + 1]),
                        Flatten(Block(grad_kernel, SliceOut(bwd_writes[n].i, bwd_writes[n].ii),
                                      SliceIn(bwd_writes[n].j, bwd_writes[n].jj))))
        /\ \A b \in BlockIndices : \A k \in 0 .. NBasis(b.i, b.j) - 1 :
              \E n \in 1 .. Len(bwd_writes) :
                  Tuple5(bwd_writes[n]) = [i |-> b.i, j |-> b.j, ii |-> b.ii, jj |-> b.jj, k |-> k]

C9_Witness ==
    /\ bwd_status = "ok"
    /\ nweights >= 4
    /\ Len(multiplicites_out) = 2
    /\ Len(multiplicites_in) = 2
    /\ \E n \in 1 .. Len(bwd_writes) : bwd_writes[n].k = 1 /\ grad_weight[n] # 0

(***************************************************************************)
(* Properties of the gated activation                                      *)
(***************************************************************************)
\* number of channels before the block of repr[n] (n is 1-based: order n - 1)
BlockStart(repr, n) == SumSeq([q \in 1 .. n - 1 |-> repr[q] * (2 * (q - 1) + 1)] \o <<>>)

\* the channels (1-based) that repr declares
DeclaredRange(repr) == 1 .. FeatureChannels(repr)

\* the index n into repr of the block that holds channel c
BlockOfChannel(repr, c) ==
    CHOOSE n \in 1 .. Len(repr) :
        BlockStart(repr, n) < c /\ c <= BlockStart(repr, n) + repr[n] * (2 * (n - 1) + 1)

\* the rank (1-based) of channel c's capsule among the non-scalar capsules in
\* block order
CapsuleRank(repr, c) ==
    LET n == BlockOfChannel(repr, c)
    IN SumSeq(SubSeq(repr, 2, n - 1)) + ((c - BlockStart(repr, n) - 1) \div (2 * (n - 1) + 1)) + 1

GateRequested == GateActivationOf(act_arg) # "None"

C6_EvenSizeAlwaysFails ==
    (g_pc # "new" /\ GateRequested /\ g_size % 2 = 0) => g_pc = "AssertionError"

\* C6 amended: a gate activation requested with an even kernel size fails at
\* construction when repr_in has a non-scalar channel (sum(repr_in[1:]) > 0);
\* without one the construction succeeds with self.gates = None
C6_EvenSizeFailsWithNonScalars ==
    (g_pc # "new" /\ GateRequested /\ g_size % 2 = 0) =>
        IF NonScalar(repr_in) > 0
        THEN g_pc = "AssertionError"
        ELSE g_pc = "ready" /\ ~gates.present

C6_Witness ==
    /\ g_pc = "AssertionError"
    /\ GateRequested
    /\ g_size % 2 = 0
    /\ NonScalar(repr_in) = 2

\* C7: forward leaves the blocks without a configured non-linearity unchanged:
\* the scalar channels when no scalar activation is configured, every
\* non-scalar block when gating is disabled
C7_Passthrough ==
    /\ (g_pc = "ready" /\ ScalarActivationOf(act_arg) = "None") => scalar_act = "None"
    /\ (g_pc = "ready" /\ ~GateRequested) => ~gates.present
    /\ ga_status = "ok" =>
          \A c \in DeclaredRange(repr_in) :
              /\ (BlockOfChannel(repr_in, c) = 1 /\ scalar_act = "None") =>
                    (c <= Len(ga_z) /\ ga_z[c] = ga_x[c])
              /\ (BlockOfChannel(repr_in, c) > 1 /\ ~gates.present) =>
                    (c <= Len(ga_z) /\ ga_z[c] = ga_x[c])

C7_Witness ==
    /\ ga_status = "ok"
    /\ scalar_act = "None"
    /\ gates.present
    /\ repr_in[1] = 1
    /\ \E p \in 1 .. NumPos : ga_x[1][p] < 0
    /\ \E c \in 2 .. Len(ga_z) : ga_z[c] # ga_x[c]

\* C10: with gating enabled the gate convolution yields sum(repr_in[1:])
\* channels, the c-th non-scalar capsule in block order is multiplied by gate
\* channel c (all its 2n+1 channels by the same gate value at each position),
\* every gate channel is used by exactly one capsule and begin_g ends at
\* n_non_scalar
C10_GatePairing ==
    (ga_status = "ok" /\ gates.present) =>
        /\ Len(ga_g) = NonScalar(repr_in)
        /\ ga_begin_g = NonScalar(repr_in)
        /\ \A c \in 1 .. Len(ga_z) :
              BlockOfChannel(repr_in, c) > 1 =>
                  \A p \in 1 .. Len(ga_z[c]) :
                      ga_z[c][p] = ga_x[c][p] * ga_g[CapsuleRank(repr_in, c)][p]
        /\ \A q \in 1 .. NonScalar(repr_in) :
              Cardinality({n \in 1 .. Len(ga_uses) :
                              ga_uses[n].begin_g < q /\ q <= ga_uses[n].begin_g + ga_uses[n].mul}) = 1
        /\ \A n \in 1 .. Len(ga_uses) :
              /\ ga_uses[n].mul = repr_in[ga_uses[n].n + 1]
              /\ ga_uses[n].begin_x = BlockStart(repr_in, ga_uses[n].n + 1)

C10_Witness ==
    /\ ga_status = "ok"
    /\ gates.present
    /\ Len(repr_in) = 3
    /\ repr_in[1] = 0 /\ repr_in[2] = 1 /\ repr_in[3] = 1
    /\ \E p \in 1 .. NumPos : ga_g[1][p] # ga_g[2][p] /\ ga_z[4][p] # 0

=============================================================================
